---- MODULE Spec2Model ----
(***************************************************************************)
(* The two PackOut.xml batch scripts of the repository:                    *)
(*   scripts/sql2packout.py    applies SQL UPDATE statements to the tree   *)
(*   scripts/update_packout.py refreshes the tree from the live database   *)
(* Both are straight-line programs; pc is the position in the script.      *)
(* Text is a sequence of one-character strings, so that the case           *)
(* conversions and the SQL un-escaping are computed character by           *)
(* character.  Tag names of the tree are strings, spelled out by Spell.    *)
(***************************************************************************)
EXTENDS Integers, Sequences, FiniteSets, TLC

VARIABLES
    script,       \* which program runs
    pc,           \* position in the script
    nParsed,      \* sql2packout: statements parsed so far
    lastStmt,     \* sql2packout: the statement the parse loop is at
    updates,      \* sql2packout: table -> key -> field -> value
    tree,         \* the ElementTree in memory (<<>> before ET.parse)
    tree0,        \* the tree as ET.parse loaded it
    cursor,       \* update_packout: index into the current loop's element list
    counts,       \* elements updated, per table
    skipped,      \* update_packout: elements skipped, per table
    lookupFailed, \* update_packout: some database lookup raised an exception
    written,      \* content of the output file (<<>> while not written)
    writes,       \* number of tree.write calls
    exitCode      \* process exit status (-1 while running)

vars == <<script, pc, nParsed, lastStmt, updates, tree, tree0, cursor, counts,
          skipped, lookupFailed, written, writes, exitCode>>

-----------------------------------------------------------------------------
(* Characters and names *)

LowerChars ==
    <<"a", "b", "c", "d", "e", "f", "g", "h", "i", "j", "k", "l", "m",
      "n", "o", "p", "q", "r", "s", "t", "u", "v", "w", "x", "y", "z">>
UpperChars ==
    <<"A", "B", "C", "D", "E", "F", "G", "H", "I", "J", "K", "L", "M",
      "N", "O", "P", "Q", "R", "S", "T", "U", "V", "W", "X", "Y", "Z">>

Digits == {"0", "1", "2", "3", "4", "5", "6", "7", "8", "9"}

IndexIn(c, s) == CHOOSE i \in 1..Len(s) : s[i] = c

\* str.upper / str.lower on a single character
ToUpper(c) == IF \E i \in 1..Len(LowerChars) : LowerChars[i] = c
              THEN UpperChars[IndexIn(c, LowerChars)] ELSE c
ToLower(c) == IF \E i \in 1..Len(UpperChars) : UpperChars[i] = c
              THEN LowerChars[IndexIn(c, UpperChars)] ELSE c

\* str.upper(), str.lower(), str.capitalize()
Upper(s) == [i \in 1..Len(s) |-> ToUpper(s[i])]
Lower(s) == [i \in 1..Len(s) |-> ToLower(s[i])]
Capitalize(s) == [i \in 1..Len(s) |-> IF i = 1 THEN ToUpper(s[i]) ELSE ToLower(s[i])]

EndsWith(s, suffix) ==
    /\ Len(s) >= Len(suffix)
    /\ SubSeq(s, Len(s) - Len(suffix) + 1, Len(s)) = suffix

\* the spelling of every tag and column name of the vocabulary
Spell ==
  [
    idempiere             |-> <<"i", "d", "e", "m", "p", "i", "e", "r", "e">>,
    AD_Element            |-> <<"A", "D", "_", "E", "l", "e", "m", "e", "n", "t">>,
    AD_Window             |-> <<"A", "D", "_", "W", "i", "n", "d", "o", "w">>,
    AD_Tab                |-> <<"A", "D", "_", "T", "a", "b">>,
    AD_Field              |-> <<"A", "D", "_", "F", "i", "e", "l", "d">>,
    AD_Process            |-> <<"A", "D", "_", "P", "r", "o", "c", "e", "s", "s">>,
    AD_Form               |-> <<"A", "D", "_", "F", "o", "r", "m">>,
    AD_Menu               |-> <<"A", "D", "_", "M", "e", "n", "u">>,
    AD_Element_ID         |-> <<"A", "D", "_", "E", "l", "e", "m", "e", "n", "t", "_", "I", "D">>,
    AD_Window_ID          |-> <<"A", "D", "_", "W", "i", "n", "d", "o", "w", "_", "I", "D">>,
    AD_Tab_ID             |-> <<"A", "D", "_", "T", "a", "b", "_", "I", "D">>,
    AD_Field_ID           |-> <<"A", "D", "_", "F", "i", "e", "l", "d", "_", "I", "D">>,
    AD_Process_ID         |-> <<"A", "D", "_", "P", "r", "o", "c", "e", "s", "s", "_", "I", "D">>,
    AD_Form_ID            |-> <<"A", "D", "_", "F", "o", "r", "m", "_", "I", "D">>,
    AD_Menu_ID            |-> <<"A", "D", "_", "M", "e", "n", "u", "_", "I", "D">>,
    AD_Client_ID          |-> <<"A", "D", "_", "C", "l", "i", "e", "n", "t", "_", "I", "D">>,
    ColumnName            |-> <<"C", "o", "l", "u", "m", "n", "N", "a", "m", "e">>,
    Name                  |-> <<"N", "a", "m", "e">>,
    PrintName             |-> <<"P", "r", "i", "n", "t", "N", "a", "m", "e">>,
    Help                  |-> <<"H", "e", "l", "p">>,
    Description           |-> <<"D", "e", "s", "c", "r", "i", "p", "t", "i", "o", "n">>,
    IsCentrallyMaintained |-> <<"I", "s", "C", "e", "n", "t", "r", "a", "l", "l", "y", "M", "a", "i", "n", "t", "a", "i", "n", "e", "d">>,
    EntityType            |-> <<"E", "n", "t", "i", "t", "y", "T", "y", "p", "e">>
  ]

\* Python's None as the text of an element or a value; no text is spelled so
None == <<"None">>

\* \d+ and int(): a non-empty run of digits
IsDigits(s) == Len(s) > 0 /\ \A i \in 1..Len(s) : s[i] \in Digits

\* str.replace("''", "'"): left to right, non overlapping
RECURSIVE Unescape(_)
Unescape(s) ==
    IF Len(s) < 2 THEN s
    ELSE IF s[1] = "'" /\ s[2] = "'"
         THEN <<"'">> \o Unescape(SubSeq(s, 3, Len(s)))
         ELSE <<s[1]>> \o Unescape(Tail(s))

Tables == {"AD_Element", "AD_Window", "AD_Tab", "AD_Field", "AD_Process",
           "AD_Form", "AD_Menu"}

-----------------------------------------------------------------------------
(* The element tree.  A tree is the sequence of its nodes in document     *)
(* order; node 1 is the root; parent is the index of the parent (0 for    *)
(* the root).                                                              *)

Nodes(t) == 1..Len(t)

Children(t, e) == {c \in Nodes(t) : t[c].parent = e}

Min(S) == CHOOSE x \in S : \A y \in S : x <= y

\* Element.find(name): the first direct child whose tag is name, 0 for None
find(t, e, name) ==
    LET hits == {c \in Children(t, e) : Spell[t[c].tag] = name}
    IN  IF hits = {} THEN 0 ELSE Min(hits)

\* root.iter(tag): every element of the tree with that tag, in document order
iter(t, tag) ==
    SelectSeq([i \in 1..Len(t) |-> i], LAMBDA i : t[i].tag = tag)

\* the text of a child found by find, None when the child is missing
TextOf(t, c) == IF c = 0 THEN None ELSE t[c].text

\* what a tree is apart from its text: tags and nesting, in order
Shape(t) == [i \in 1..Len(t) |-> [tag |-> t[i].tag, parent |-> t[i].parent]]

-----------------------------------------------------------------------------
(* sql2packout.py: parsing *)

EmptyDict == [k \in {} |-> None]

Put(d, k, v) == (k :> v) @@ d

\* updates = {'AD_Element': {}, ...}
NoUpdates == [tb \in Tables |-> EmptyDict]

\* A statement is [verb, table, set, where]: its first word, the table name,
\* the assignments field = value of the SET clause and the conditions
\* column = value of the WHERE clause, each value quoted or bare.
\* where = <<>> stands for a statement without WHERE clause.

\* set_patterns loop: field upper-cased, '' un-escaped, later ones override
RECURSIVE ParseValues(_, _)
ParseValues(set, values) ==
    IF set = <<>> THEN values
    ELSE LET a   == Head(set)
             val == IF a.val # <<>> THEN Unescape(a.val) ELSE a.val
         IN  ParseValues(Tail(set), Put(values, Upper(a.field), val))

\* re.search: the first of the conditions a pattern matches, 0 if none
FirstMatch(hits) == IF hits = {} THEN 0 ELSE Min(hits)

\* (\w+_ID)\s*=\s*(\d+), ignoring case
IdPattern(c) ==
    /\ EndsWith(Lower(c.col), Lower(<<"_", "I", "D">>))
    /\ Len(c.col) > 3
    /\ ~c.quoted
    /\ IsDigits(c.val)

\* ColumnName\s*=\s*'([^']+)', ignoring case
ColPattern(c) ==
    /\ EndsWith(Lower(c.col), Lower(Spell.ColumnName))
    /\ c.quoted
    /\ c.val # <<>>

\* (?<!\w)Name\s*=\s*'([^']+)', ignoring case
NamePattern(c) ==
    /\ Lower(c.col) = Lower(Spell.Name)
    /\ c.quoted
    /\ c.val # <<>>

NoKey == <<"", <<>>>>

\* the WHERE key: the ID match, overridden by the ColumnName match; the Name
\* match only when neither matched
ExtractKey(where) ==
    LET id_match   == FirstMatch({i \in 1..Len(where) : IdPattern(where[i])})
        col_match  == FirstMatch({i \in 1..Len(where) : ColPattern(where[i])})
        name_match == FirstMatch({i \in 1..Len(where) : NamePattern(where[i])})
        key1 == IF id_match # 0 THEN <<"ID", where[id_match].val>> ELSE NoKey
        key2 == IF col_match # 0 THEN <<"ColumnName", where[col_match].val>> ELSE key1
    IN  IF name_match # 0 /\ key2 = NoKey
        THEN <<"Name", where[name_match].val>> ELSE key2

\* A dictionary key that is a plain string k in the code (updates['AD_Tab'][k])
\* is written <<"str", k>>, a tuple key ('Name', k) is written <<"Name", k>>.
StrKey(k) == <<"str", k>>

\* if key and values: ... the per-table storing of a rule
StoreRule(upd, table, key, values) ==
    LET set(tb, k) == [upd EXCEPT ![tb] = Put(upd[tb], k, values)]
    IN  IF table = Upper(Spell.AD_Element) THEN
            IF key[1] = "ColumnName" THEN set("AD_Element", StrKey(key[2])) ELSE upd
        ELSE IF table = Upper(Spell.AD_Window) THEN
            IF key[1] = "Name" THEN set("AD_Window", <<"Name", key[2]>>)
            ELSE IF key[1] = "ID" THEN set("AD_Window", <<"ID", key[2]>>)
            ELSE upd
        ELSE IF table = Upper(Spell.AD_Tab) THEN
            IF key[1] = "ID" THEN set("AD_Tab", StrKey(key[2]))
            ELSE IF key[1] = "Name" THEN set("AD_Tab", <<"Name", key[2]>>)
            ELSE upd
        ELSE IF table = Upper(Spell.AD_Field) THEN
            IF key[1] = "ID" THEN set("AD_Field", StrKey(key[2])) ELSE upd
        ELSE IF table = Upper(Spell.AD_Process) THEN
            IF key[1] = "ID" THEN set("AD_Process", StrKey(key[2])) ELSE upd
        ELSE IF table = Upper(Spell.AD_Form) THEN
            IF key[1] = "ID" THEN set("AD_Form", StrKey(key[2])) ELSE upd
        ELSE IF table = Upper(Spell.AD_Menu) THEN
            IF key[1] = "ID" THEN set("AD_Menu", StrKey(key[2])) ELSE upd
        ELSE upd

\* one iteration of "for stmt in statements" of parse_sql_file
ParseStatement(upd, stmt) ==
    IF ~(Upper(stmt.verb) = <<"U", "P", "D", "A", "T", "E">>) THEN upd
    ELSE IF stmt.set = <<>> \/ stmt.where = <<>> THEN upd
    ELSE LET table  == Upper(stmt.table)
             values == ParseValues(stmt.set, EmptyDict)
             key    == ExtractKey(stmt.where)
         IN  IF key # NoKey /\ DOMAIN values # {}
             THEN StoreRule(upd, table, key, values)
             ELSE upd

-----------------------------------------------------------------------------
(* sql2packout.py: applying *)

\* the child update_element picks for a field: Capitalize, then as given,
\* then the variants as given, capitalized, lower-cased
Resolve(t, e, field) ==
    LET c1 == find(t, e, Capitalize(field))
        c2 == find(t, e, field)
        c3 == find(t, e, Lower(field))
    IN  IF c1 # 0 THEN c1 ELSE IF c2 # 0 THEN c2 ELSE c3

RECURSIVE SetFields(_, _, _, _)
SetFields(t, e, values, fields) ==
    IF fields = {} THEN t
    ELSE LET f     == CHOOSE x \in fields : TRUE
             child == Resolve(t, e, f)
             t2    == IF child # 0 /\ values[f] # None
                      THEN [t EXCEPT ![child].text = values[f]]
                      ELSE t
         IN  SetFields(t2, e, values, fields \ {f})

\* an update_element that creates the child a field has no tag for
RECURSIVE SetFieldsCreating(_, _, _, _)
SetFieldsCreating(t, e, values, fields) ==
    IF fields = {} THEN t
    ELSE LET f     == CHOOSE x \in fields : TRUE
             child == Resolve(t, e, f)
             tags  == {tg \in DOMAIN Spell : Upper(Spell[tg]) = f}
             t2    == IF values[f] = None THEN t
                      ELSE IF child # 0 THEN [t EXCEPT ![child].text = values[f]]
                      ELSE IF tags # {}
                      THEN Append(t, [tag |-> CHOOSE tg \in tags : TRUE,
                                      parent |-> e, text |-> values[f]])
                      ELSE t
         IN  SetFieldsCreating(t2, e, values, fields \ {f})

update_element_creating(t, e, values) == SetFieldsCreating(t, e, values, DOMAIN values)

\* update_element(elem, values): the tree after the call
update_element(t, e, values) == SetFields(t, e, values, DOMAIN values)

\* update_element's return value
Updated(t, e, values) ==
    \E f \in DOMAIN values : Resolve(t, e, f) # 0 /\ values[f] # None

\* One iteration of an apply loop takes and leaves st = [t, n]: the tree and
\* the loop's count of updated elements.
\* The loops keyed by a single child (idTag) whose text is the dictionary
\* key: AD_Element (ColumnName) and AD_Field, AD_Process, AD_Form, AD_Menu
\* (<Table>_ID)
ApplyByKey(st, e, idTag, rules) ==
    LET id_elem == find(st.t, e, Spell[idTag])
        key     == StrKey(TextOf(st.t, id_elem))
    IN  IF id_elem # 0 /\ key \in DOMAIN rules
        THEN [t |-> update_element(st.t, e, rules[key]),
              n |-> st.n + (IF Updated(st.t, e, rules[key]) THEN 1 ELSE 0)]
        ELSE st

\* One iteration of the AD_Window and AD_Tab loops: by ID first and, unless
\* that updated something (continue), by Name.  The ID key is the tuple
\* ('ID', text) for AD_Window and the plain text for AD_Tab.
ApplyByIdThenName(st, e, idTag, tupleKey, rules) ==
    LET id_elem   == find(st.t, e, Spell[idTag])
        id_text   == TextOf(st.t, id_elem)
        idKey     == IF tupleKey THEN <<"ID", id_text>> ELSE StrKey(id_text)
        byId      == id_elem # 0 /\ idKey \in DOMAIN rules
        name_elem == find(st.t, e, Spell.Name)
        nameKey   == <<"Name", TextOf(st.t, name_elem)>>
    IN  IF byId /\ Updated(st.t, e, rules[idKey])
        THEN [t |-> update_element(st.t, e, rules[idKey]), n |-> st.n + 1]
        ELSE IF name_elem # 0 /\ nameKey \in DOMAIN rules
        THEN [t |-> update_element(st.t, e, rules[nameKey]),
              n |-> st.n + (IF Updated(st.t, e, rules[nameKey]) THEN 1 ELSE 0)]
        ELSE st

\* the body of the apply loop of each table
ApplyElem(st, e, tag, upd) ==
    CASE tag = "AD_Element" -> ApplyByKey(st, e, "ColumnName", upd["AD_Element"])
      [] tag = "AD_Window"  -> ApplyByIdThenName(st, e, "AD_Window_ID", TRUE,
                                                 upd["AD_Window"])
      [] tag = "AD_Tab"     -> ApplyByIdThenName(st, e, "AD_Tab_ID", FALSE, upd["AD_Tab"])
      [] tag = "AD_Field"   -> ApplyByKey(st, e, "AD_Field_ID", upd["AD_Field"])
      [] tag = "AD_Process" -> ApplyByKey(st, e, "AD_Process_ID", upd["AD_Process"])
      [] tag = "AD_Form"    -> ApplyByKey(st, e, "AD_Form_ID", upd["AD_Form"])
      [] tag = "AD_Menu"    -> ApplyByKey(st, e, "AD_Menu_ID", upd["AD_Menu"])

\* for elem in root.iter(tag): ...
RECURSIVE ApplyLoop(_, _, _, _)
ApplyLoop(elems, st, tag, upd) ==
    IF elems = <<>> THEN st
    ELSE ApplyLoop(Tail(elems), ApplyElem(st, Head(elems), tag, upd), tag, upd)

\* one apply loop of sql2packout as a whole: the tree and the count it leaves
Pass(t, tag, upd) == ApplyLoop(iter(t, tag), [t |-> t, n |-> 0], tag, upd)

\* the order of the apply loops in sql2packout
SqlOrder == <<"AD_Element", "AD_Window", "AD_Tab", "AD_Field", "AD_Process",
              "AD_Form", "AD_Menu">>

RECURSIVE PassesFrom(_, _, _)
PassesFrom(t, i, upd) ==
    IF i > Len(SqlOrder) THEN t
    ELSE PassesFrom(Pass(t, SqlOrder[i], upd).t, i + 1, upd)

\* the seven loops one after the other, as the script runs them
AllPasses(t, upd) == PassesFrom(t, 1, upd)

\* tree.write followed by ET.parse of the file written: an element whose text
\* is '' or None is written <Tag /> and read back with text None
Serialize(t) ==
    [i \in 1..Len(t) |-> IF t[i].text = <<>> THEN [t[i] EXCEPT !.text = None] ELSE t[i]]

-----------------------------------------------------------------------------
(* update_packout.py *)

Truthy(v) == v # None /\ v # <<>>

\* update_text(elem, tag, value)
update_text(t, e, tag, value) ==
    LET child == find(t, e, Spell[tag])
    IN  IF child # 0
        THEN [t EXCEPT ![child].text = IF Truthy(value) THEN value ELSE None]
        ELSE t

\* get_entity_type(elem)
get_entity_type(t, e) == TextOf(t, find(t, e, Spell.EntityType))

\* a loop that skips only the elements marked as core ('D')
IsModuleElement_NotCore(t, e) == get_entity_type(t, e) # <<"D">>

\* if entity_type != 'U': skipped += 1; continue
IsModuleElement(t, e) == get_entity_type(t, e) = <<"U">>

\* the order of the update loops in update_packout
DbOrder == <<"AD_Element", "AD_Window", "AD_Tab", "AD_Process", "AD_Form",
             "AD_Menu", "AD_Field">>

\* the child whose text is looked up in the database
DbKeyTag ==
    [AD_Element |-> "ColumnName",   AD_Window |-> "AD_Window_ID",
     AD_Tab     |-> "AD_Tab_ID",    AD_Process |-> "AD_Process_ID",
     AD_Form    |-> "AD_Form_ID",   AD_Menu |-> "AD_Menu_ID",
     AD_Field   |-> "AD_Field_ID"]

\* the columns each loop selects, in the order it writes them
DbFields ==
    [AD_Element |-> <<"Name", "PrintName", "Help", "Description">>,
     AD_Window  |-> <<"Name", "Help", "Description">>,
     AD_Tab     |-> <<"Name", "Help", "Description">>,
     AD_Process |-> <<"Name", "Help", "Description">>,
     AD_Form    |-> <<"Name", "Help", "Description">>,
     AD_Menu    |-> <<"Name", "Description">>,
     AD_Field   |-> <<"Name", "Help", "Description", "IsCentrallyMaintained">>]

\* the loops whose lookup runs inside try: ... except: pass, and converts the
\* key with int(); the AD_Element loop does neither
InTry(tag) == tag # "AD_Element"

\* the update_text calls of one loop body, for the row fetched
RECURSIVE WriteRow(_, _, _, _)
WriteRow(t, e, fields, row) ==
    IF fields = <<>> THEN t
    ELSE WriteRow(update_text(t, e, Head(fields), row[Head(fields)]), e,
                  Tail(fields), row)

-----------------------------------------------------------------------------
(* Inputs: the documents ET.parse can load and the statements the SQL     *)
(* files can hold                                                          *)

MaxElems == 2   \* top-level elements of a document
MaxStmts == 2   \* statements in the SQL files of a run

Kid(tag, text) == [tag |-> tag, text |-> text]

IdTag ==
    [AD_Element |-> "AD_Element_ID", AD_Window |-> "AD_Window_ID",
     AD_Tab     |-> "AD_Tab_ID",     AD_Process |-> "AD_Process_ID",
     AD_Form    |-> "AD_Form_ID",    AD_Menu |-> "AD_Menu_ID",
     AD_Field   |-> "AD_Field_ID"]

Opt(cond, seq) == IF cond THEN seq ELSE <<>>

\* An element as PackOut.xml holds it: identifier, ColumnName (AD_Element),
\* EntityType unless et is None, Name, PrintName (AD_Element), Description,
\* Help if withHelp, IsCentrallyMaintained (AD_Field), then nested elements
Element(tb, id, et, name, withHelp, sub) ==
    [tag  |-> tb,
     kids |-> <<Kid(IdTag[tb], id)>>
              \o Opt(tb = "AD_Element", <<Kid("ColumnName", <<"F", "o", "o">>)>>)
              \o Opt(et # None, <<Kid("EntityType", et)>>)
              \o <<Kid("Name", name)>>
              \o Opt(tb = "AD_Element", <<Kid("PrintName", name)>>)
              \o <<Kid("Description", None)>>
              \o Opt(withHelp, <<Kid("Help", <<"h">>)>>)
              \o Opt(tb = "AD_Field", <<Kid("IsCentrallyMaintained", <<"Y">>)>>),
     sub  |-> sub]

Catalog ==
    << Element("AD_Element", <<"1">>, <<"U">>, <<"A">>, TRUE, <<>>),
       Element("AD_Element", <<"1">>, <<"D">>, <<"A">>, TRUE, <<>>),
       Element("AD_Window", <<"1">>, <<"D">>, <<"A">>, TRUE,
               <<Element("AD_Tab", <<"1">>, <<"U">>, <<"A">>, TRUE, <<>>)>>),
       Element("AD_Window", <<"2">>, <<"U">>, <<"B">>, FALSE, <<>>),
       Element("AD_Tab", <<"1">>, <<"u">>, <<"A">>, TRUE, <<>>),
       Element("AD_Field", <<"1">>, <<"U">>, <<"A">>, TRUE, <<>>),
       Element("AD_Field", <<"1">>, <<"D">>, <<"A">>, TRUE, <<>>),
       Element("AD_Process", <<"x">>, <<"U">>, <<"A">>, TRUE, <<>>),
       Element("AD_Process", <<"1">>, <<"U">>, <<"A">>, TRUE, <<>>),
       Element("AD_Form", <<"1">>, None, <<"A">>, TRUE, <<>>),
       Element("AD_Form", <<"1">>, <<"U">>, <<"A">>, TRUE, <<>>),
       Element("AD_Menu", <<"1">>, <<"U">>, <<"A">>, FALSE, <<>>) >>

\* the nodes of an element placed under parent, after base nodes
RECURSIVE Block(_, _, _), Blocks(_, _, _)
Block(d, parent, base) ==
    <<[tag |-> d.tag, parent |-> parent, text |-> None]>>
    \o [i \in 1..Len(d.kids) |->
          [tag |-> d.kids[i].tag, parent |-> base + 1, text |-> d.kids[i].text]]
    \o Blocks(d.sub, base + 1, base + 1 + Len(d.kids))
Blocks(ds, parent, base) ==
    IF ds = <<>> THEN <<>>
    ELSE LET b == Block(Head(ds), parent, base)
         IN  b \o Blocks(Tail(ds), parent, base + Len(b))

Doc(ds) == <<[tag |-> "idempiere", parent |-> 0, text |-> None]>> \o Blocks(ds, 1, 1)

RECURSIVE Pick(_, _, _)
Pick(cat, sel, i) ==
    IF i > Len(cat) THEN <<>>
    ELSE Opt(i \in sel, <<cat[i]>>) \o Pick(cat, sel, i + 1)

\* the well-formed documents: up to MaxElems elements of the catalog
Docs ==
    {Doc(Pick(Catalog, sel, 1)) :
        sel \in {x \in SUBSET (1..Len(Catalog)) : Cardinality(x) <= MaxElems}}

Assign(field, val, quoted) == [field |-> field, val |-> val, quoted |-> quoted]
Cond(col, val, quoted) == [col |-> col, val |-> val, quoted |-> quoted]
Stmt(verb, table, set, where) ==
    [verb |-> verb, table |-> table, set |-> set, where |-> where]

UPDATE == <<"U", "P", "D", "A", "T", "E">>
Foo == <<"F", "o", "o">>

Statements ==
    { \* UPDATE AD_Window SET Name='B' WHERE Name='A'
      Stmt(UPDATE, Spell.AD_Window, <<Assign(Spell.Name, <<"B">>, TRUE)>>,
           <<Cond(Spell.Name, <<"A">>, TRUE)>>),
      \* UPDATE AD_Window SET Name='C' WHERE Name='B'
      Stmt(UPDATE, Spell.AD_Window, <<Assign(Spell.Name, <<"C">>, TRUE)>>,
           <<Cond(Spell.Name, <<"B">>, TRUE)>>),
      \* UPDATE AD_Window SET Help='it''s' WHERE AD_Client_ID=0 AND AD_Window_ID=1
      Stmt(UPDATE, Spell.AD_Window,
           <<Assign(Spell.Help, <<"i", "t", "'", "'", "s">>, TRUE)>>,
           <<Cond(Spell.AD_Client_ID, <<"0">>, FALSE),
             Cond(Spell.AD_Window_ID, <<"1">>, FALSE)>>),
      \* UPDATE AD_Element SET PrintName='P', Help='H' WHERE ColumnName='Foo'
      Stmt(UPDATE, Spell.AD_Element,
           <<Assign(Spell.PrintName, <<"P">>, TRUE), Assign(Spell.Help, <<"H">>, TRUE)>>,
           <<Cond(Spell.ColumnName, Foo, TRUE)>>),
      \* update ad_element set description='D' where columnname='Foo'
      Stmt(Lower(UPDATE), Lower(Spell.AD_Element),
           <<Assign(Lower(Spell.Description), <<"D">>, TRUE)>>,
           <<Cond(Lower(Spell.ColumnName), Foo, TRUE)>>),
      \* UPDATE AD_Field SET IsCentrallyMaintained='N', Name='B' WHERE AD_Field_ID=1
      Stmt(UPDATE, Spell.AD_Field,
           <<Assign(Spell.IsCentrallyMaintained, <<"N">>, TRUE),
             Assign(Spell.Name, <<"B">>, TRUE)>>,
           <<Cond(Spell.AD_Field_ID, <<"1">>, FALSE)>>),
      \* UPDATE AD_Process SET Help='H' WHERE Name='A'
      Stmt(UPDATE, Spell.AD_Process, <<Assign(Spell.Help, <<"H">>, TRUE)>>,
           <<Cond(Spell.Name, <<"A">>, TRUE)>>),
      \* UPDATE AD_Tab SET Name='B' WHERE AD_Tab_ID=1
      Stmt(UPDATE, Spell.AD_Tab, <<Assign(Spell.Name, <<"B">>, TRUE)>>,
           <<Cond(Spell.AD_Tab_ID, <<"1">>, FALSE)>>),
      \* UPDATE AD_Menu SET Help='H', Description='' WHERE AD_Menu_ID=1
      Stmt(UPDATE, Spell.AD_Menu,
           <<Assign(Spell.Help, <<"H">>, TRUE), Assign(Spell.Description, <<>>, TRUE)>>,
           <<Cond(Spell.AD_Menu_ID, <<"1">>, FALSE)>>),
      \* UPDATE AD_Form SET Description=D WHERE AD_Form_ID=1
      Stmt(UPDATE, Spell.AD_Form, <<Assign(Spell.Description, <<"D">>, FALSE)>>,
           <<Cond(Spell.AD_Form_ID, <<"1">>, FALSE)>>),
      \* DELETE FROM AD_Menu WHERE AD_Menu_ID=1 (not an UPDATE)
      Stmt(<<"D", "E", "L", "E", "T", "E">>, Spell.AD_Menu, <<>>,
           <<Cond(Spell.AD_Menu_ID, <<"1">>, FALSE)>>) }

NoStmt == Stmt(<<>>, <<>>, <<>>, <<>>)

\* what a column of a fetched row can hold: NULL, '' or a text
DbValues == {None, <<>>, <<"Z">>}

\* what cur.execute / cur.fetchone can do: raise, no row, or a row
Outcomes == {<<"raise", None>>, <<"none", None>>} \cup {<<"row", v>> : v \in DbValues}

RowOf(tag, v) == [f \in {DbFields[tag][i] : i \in 1..Len(DbFields[tag])} |-> v]

-----------------------------------------------------------------------------
(* The two scripts as state machines *)

Zeros == [tb \in Tables |-> 0]

Init ==
    /\ script \in {"sql2packout", "update_packout"}
    /\ pc = "args"
    /\ nParsed = 0
    /\ lastStmt = NoStmt
    /\ updates = NoUpdates
    /\ tree = <<>>
    /\ tree0 = <<>>
    /\ cursor = 1
    /\ counts = Zeros
    /\ skipped = Zeros
    /\ lookupFailed = FALSE
    /\ written = <<>>
    /\ writes = 0
    /\ exitCode = -1

\* sys.exit(1) after the usage text or an "not found" message
Exit1 ==
    /\ pc' = "exit"
    /\ exitCode' = 1

\* an exception nothing catches: traceback, exit status 1
Crash ==
    /\ pc' = "crashed"
    /\ exitCode' = 1

\* sql2packout: the argument and input checks
SqlCheckArgs ==
    /\ script = "sql2packout" /\ pc = "args"
    /\ \E argc \in 1..4, xmlExists \in BOOLEAN, sqlKind \in {"dir", "file", "missing"} :
          IF argc < 3 \/ ~xmlExists \/ sqlKind = "missing"
          THEN Exit1
          ELSE pc' = "parse" /\ exitCode' = exitCode
    /\ UNCHANGED <<script, nParsed, lastStmt, updates, tree, tree0, cursor, counts,
                   skipped, lookupFailed, written, writes>>

\* sql2packout: parse_sql_file reads the next statement of the SQL files
SqlParseStatement ==
    /\ script = "sql2packout" /\ pc = "parse"
    /\ nParsed < MaxStmts
    /\ \E stmt \in Statements :
          /\ lastStmt' = stmt
          /\ updates' = ParseStatement(updates, stmt)
    /\ nParsed' = nParsed + 1
    /\ UNCHANGED <<script, pc, tree, tree0, cursor, counts, skipped, lookupFailed,
                   written, writes, exitCode>>

\* sql2packout: the last SQL file is parsed
SqlParseDone ==
    /\ script = "sql2packout" /\ pc = "parse"
    /\ pc' = "load"
    /\ lastStmt' = NoStmt
    /\ UNCHANGED <<script, nParsed, updates, tree, tree0, cursor, counts, skipped,
                   lookupFailed, written, writes, exitCode>>

\* tree = ET.parse(input): a well-formed document is loaded, any other input
\* raises ParseError
LoadXml(next) ==
    \/ /\ \E doc \in Docs : tree' = doc /\ tree0' = doc
       /\ pc' = next
       /\ exitCode' = exitCode
    \/ /\ Crash
       /\ UNCHANGED <<tree, tree0>>

SqlLoad ==
    /\ script = "sql2packout" /\ pc = "load"
    /\ LoadXml("AD_Element")
    /\ UNCHANGED <<script, nParsed, lastStmt, updates, cursor, counts, skipped,
                   lookupFailed, written, writes>>

\* sql2packout: one apply loop
SqlPass(tag, next) ==
    /\ LET st == Pass(tree, tag, updates)
       IN  /\ tree' = st.t
           /\ counts' = [counts EXCEPT ![tag] = st.n]
    /\ pc' = next
    /\ UNCHANGED <<script, nParsed, lastStmt, updates, tree0, cursor, skipped,
                   lookupFailed, written, writes, exitCode>>

SqlApplyElements ==
    /\ script = "sql2packout" /\ pc = "AD_Element"
    /\ SqlPass("AD_Element", "AD_Window")

SqlApplyWindows ==
    /\ script = "sql2packout" /\ pc = "AD_Window"
    /\ SqlPass("AD_Window", "AD_Tab")

SqlApplyTabs ==
    /\ script = "sql2packout" /\ pc = "AD_Tab"
    /\ SqlPass("AD_Tab", "AD_Field")

SqlApplyFields ==
    /\ script = "sql2packout" /\ pc = "AD_Field"
    /\ SqlPass("AD_Field", "AD_Process")

SqlApplyProcesses ==
    /\ script = "sql2packout" /\ pc = "AD_Process"
    /\ SqlPass("AD_Process", "AD_Form")

SqlApplyForms ==
    /\ script = "sql2packout" /\ pc = "AD_Form"
    /\ SqlPass("AD_Form", "AD_Menu")

SqlApplyMenus ==
    /\ script = "sql2packout" /\ pc = "AD_Menu"
    /\ SqlPass("AD_Menu", "write")


\* tree.write(output), the summary, and the end of the script
WriteOutput ==
    /\ written' = Serialize(tree)
    /\ writes' = writes + 1
    /\ pc' = "done"
    /\ exitCode' = 0

SqlWrite ==
    /\ script = "sql2packout" /\ pc = "write"
    /\ WriteOutput
    /\ UNCHANGED <<script, nParsed, lastStmt, updates, tree, tree0, cursor, counts,
                   skipped, lookupFailed>>

\* update_packout: the argument and input checks
DbCheckArgs ==
    /\ script = "update_packout" /\ pc = "args"
    /\ \E argc \in 1..3, xmlExists \in BOOLEAN :
          IF argc < 2 \/ ~xmlExists
          THEN Exit1
          ELSE pc' = "connect" /\ exitCode' = exitCode
    /\ UNCHANGED <<script, nParsed, lastStmt, updates, tree, tree0, cursor, counts,
                   skipped, lookupFailed, written, writes>>

\* update_packout: psycopg2.connect succeeds or raises
DbConnect ==
    /\ script = "update_packout" /\ pc = "connect"
    /\ \E ok \in BOOLEAN :
          IF ok THEN pc' = "load" /\ exitCode' = exitCode ELSE Crash
    /\ UNCHANGED <<script, nParsed, lastStmt, updates, tree, tree0, cursor, counts,
                   skipped, lookupFailed, written, writes>>

DbLoad ==
    /\ script = "update_packout" /\ pc = "load"
    /\ LoadXml("AD_Element")
    /\ UNCHANGED <<script, nParsed, lastStmt, updates, cursor, counts, skipped,
                   lookupFailed, written, writes>>

\* the loop goes on with the next element
NextElement ==
    /\ cursor' = cursor + 1
    /\ UNCHANGED <<pc, exitCode>>

\* update_packout: one iteration of the loop over root.iter(tag), or its end
DbPass(tag, next) ==
    /\ UNCHANGED <<script, nParsed, lastStmt, updates, tree0, written, writes>>
    /\ LET elems == iter(tree, tag)
       IN  IF cursor > Len(elems)
           THEN /\ pc' = next
                /\ cursor' = 1
                /\ UNCHANGED <<tree, counts, skipped, lookupFailed, exitCode>>
           ELSE LET e        == elems[cursor]
                    key_elem == find(tree, e, Spell[DbKeyTag[tag]])
                    key      == TextOf(tree, key_elem)
                IN  IF ~IsModuleElement(tree, e)
                    THEN /\ skipped' = [skipped EXCEPT ![tag] = @ + 1]
                         /\ NextElement
                         /\ UNCHANGED <<tree, counts, lookupFailed>>
                    ELSE IF key_elem = 0 \/ ~Truthy(key)
                    THEN /\ NextElement
                         /\ UNCHANGED <<tree, counts, skipped, lookupFailed>>
                    ELSE IF InTry(tag) /\ ~IsDigits(key)
                    THEN \* int() raises ValueError, except: pass
                         /\ lookupFailed' = TRUE
                         /\ NextElement
                         /\ UNCHANGED <<tree, counts, skipped>>
                    ELSE \E out \in Outcomes :
                         CASE out[1] = "raise" ->
                                /\ lookupFailed' = TRUE
                                /\ IF InTry(tag) THEN NextElement
                                   ELSE Crash /\ UNCHANGED cursor
                                /\ UNCHANGED <<tree, counts, skipped>>
                           [] out[1] = "none" ->
                                /\ NextElement
                                /\ UNCHANGED <<tree, counts, skipped, lookupFailed>>
                           [] out[1] = "row" ->
                                /\ tree' = WriteRow(tree, e, DbFields[tag],
                                                    RowOf(tag, out[2]))
                                /\ counts' = [counts EXCEPT ![tag] = @ + 1]
                                /\ NextElement
                                /\ UNCHANGED <<skipped, lookupFailed>>

DbUpdateElements ==
    /\ script = "update_packout" /\ pc = "AD_Element"
    /\ DbPass("AD_Element", "AD_Window")

DbUpdateWindows ==
    /\ script = "update_packout" /\ pc = "AD_Window"
    /\ DbPass("AD_Window", "AD_Tab")

DbUpdateTabs ==
    /\ script = "update_packout" /\ pc = "AD_Tab"
    /\ DbPass("AD_Tab", "AD_Process")

DbUpdateProcesses ==
    /\ script = "update_packout" /\ pc = "AD_Process"
    /\ DbPass("AD_Process", "AD_Form")

DbUpdateForms ==
    /\ script = "update_packout" /\ pc = "AD_Form"
    /\ DbPass("AD_Form", "AD_Menu")

DbUpdateMenus ==
    /\ script = "update_packout" /\ pc = "AD_Menu"
    /\ DbPass("AD_Menu", "AD_Field")

DbUpdateFields ==
    /\ script = "update_packout" /\ pc = "AD_Field"
    /\ DbPass("AD_Field", "write")


DbWrite ==
    /\ script = "update_packout" /\ pc = "write"
    /\ WriteOutput
    /\ UNCHANGED <<script, nParsed, lastStmt, updates, tree, tree0, cursor, counts,
                   skipped, lookupFailed>>

Next ==
    \/ SqlCheckArgs
    \/ SqlParseStatement
    \/ SqlParseDone
    \/ SqlLoad
    \/ SqlApplyElements
    \/ SqlApplyWindows
    \/ SqlApplyTabs
    \/ SqlApplyFields
    \/ SqlApplyProcesses
    \/ SqlApplyForms
    \/ SqlApplyMenus
    \/ SqlWrite
    \/ DbCheckArgs
    \/ DbConnect
    \/ DbLoad
    \/ DbUpdateElements
    \/ DbUpdateWindows
    \/ DbUpdateTabs
    \/ DbUpdateProcesses
    \/ DbUpdateForms
    \/ DbUpdateMenus
    \/ DbUpdateFields
    \/ DbWrite

Spec == Init /\ [][Next]_vars

-----------------------------------------------------------------------------
(* Properties *)

Loaded == tree # <<>>

\* the node's text differs from the text ET.parse loaded
Changed(c) == tree[c].text # tree0[c].text

DictElements(t) == {e \in Nodes(t) : t[e].tag \in Tables}

\* C1: in update_packout an element whose EntityType child is absent or is
\* not 'U' never has the text of a child changed: every node whose text
\* differs from the loaded one is a direct child of a dictionary element
\* whose EntityType is 'U'.
C1_OnlyModuleElementsModified ==
    (script = "update_packout" /\ Loaded) =>
        /\ Len(tree) = Len(tree0)
        /\ \A c \in Nodes(tree) :
              Changed(c) =>
                 /\ tree0[c].parent \in DictElements(tree0)
                 /\ get_entity_type(tree0, tree0[c].parent) = <<"U">>

\* C1 witness: a finished update_packout run in which an element that is not
\* a module element holds a nested module element that was modified
C1_Witness ==
    /\ script = "update_packout" /\ pc = "done"
    /\ \E e \in DictElements(tree0), n \in DictElements(tree0) :
          /\ get_entity_type(tree0, e) = <<"D">>
          /\ tree0[n].parent = e
          /\ \E c \in Children(tree, n) : Changed(c)
          /\ \E c \in Children(tree, e) : tree0[c].tag = "Name" /\ ~Changed(c)

\* C7: neither script adds, removes, renames or reorders an element: the
\* tree in memory and the file written have the tags and the nesting of the
\* tree loaded, and a text differs only in a child of a dictionary element.
C7_StructurePreserved ==
    Loaded =>
        /\ Shape(tree) = Shape(tree0)
        /\ written # <<>> => Shape(written) = Shape(tree0)
        /\ \A c \in Nodes(tree) :
              Changed(c) => tree0[c].parent \in DictElements(tree0)

\* C7 witness: a finished sql2packout run that changed a text, with a rule
\* that matched an AD_Menu element and carries a field the element has no
\* tag for
C7_Witness ==
    /\ script = "sql2packout" /\ pc = "done"
    /\ tree # tree0
    /\ \E e \in DictElements(tree) :
          /\ tree[e].tag = "AD_Menu"
          /\ LET key == StrKey(TextOf(tree, find(tree, e, Spell.AD_Menu_ID)))
             IN  /\ key \in DOMAIN updates["AD_Menu"]
                 /\ \E f \in DOMAIN updates["AD_Menu"][key] : Resolve(tree, e, f) = 0
                 /\ \E c \in Children(tree, e) : Changed(c)

\* C2: in sql2packout an element whose EntityType is the core value 'D' is
\* never modified, even when a rule matches it: no child of such an element
\* has a text that differs from the loaded one.
C2_CoreNeverModified ==
    (script = "sql2packout" /\ Loaded) =>
        \A e \in DictElements(tree0) :
            get_entity_type(tree0, e) = <<"D">> =>
                \A c \in Children(tree0, e) : ~Changed(c)

\* C3: sql2packout is idempotent: running it again on the file it wrote, with
\* the same SQL files (so the same rules), writes the same file.
C3_Idempotent ==
    (script = "sql2packout" /\ pc = "done") =>
        Serialize(AllPasses(written, updates)) = written

\* the upper-cased fields a statement assigns
FieldsOf(stmt) == {Upper(stmt.set[i].field) : i \in 1..Len(stmt.set)}

\* C4: statements that resolve to the same key merge their fields: a parse
\* step never removes a rule, never removes a field from a rule, and changes
\* the value of a field only if the statement parsed assigns that field.
C4_RulesMerge ==
    [][nParsed' = nParsed + 1 =>
          \A tb \in Tables : \A k \in DOMAIN updates[tb] :
              /\ k \in DOMAIN updates'[tb]
              /\ \A f \in DOMAIN updates[tb][k] :
                    /\ f \in DOMAIN updates'[tb][k]
                    /\ f \notin FieldsOf(lastStmt') =>
                          updates'[tb][k][f] = updates[tb][k][f]]_vars

\* the dictionary table a statement names, "" if none
TableOf(stmt) ==
    LET hits == {tb \in Tables : Upper(Spell[tb]) = Upper(stmt.table)}
    IN  IF hits = {} THEN "" ELSE CHOOSE tb \in hits : TRUE

IsUpdate(stmt) ==
    /\ Upper(stmt.verb) = UPDATE
    /\ stmt.set # <<>> /\ stmt.where # <<>>
    /\ TableOf(stmt) # ""

\* the statement's own table identifier <Table>_ID = <digits>
OwnIdPattern(stmt, c) ==
    /\ Lower(c.col) = Lower(Spell[IdTag[TableOf(stmt)]])
    /\ ~c.quoted
    /\ IsDigits(c.val)

\* the key the documented priority picks: ColumnName, then the table's own
\* identifier, then Name
DocumentedKey(stmt) ==
    LET w   == stmt.where
        col == FirstMatch({i \in 1..Len(w) : ColPattern(w[i])})
        id  == FirstMatch({i \in 1..Len(w) : OwnIdPattern(stmt, w[i])})
        nm  == FirstMatch({i \in 1..Len(w) : NamePattern(w[i])})
    IN  IF col # 0 THEN <<"ColumnName", w[col].val>>
        ELSE IF id # 0 THEN <<"ID", w[id].val>>
        ELSE IF nm # 0 THEN <<"Name", w[nm].val>>
        ELSE NoKey

\* how the dictionary of a table writes a key of a kind
StoredKey(tb, key) ==
    IF tb = "AD_Window" \/ key[1] = "Name" THEN key ELSE StrKey(key[2])

\* the key kinds the storing code accepts for a table
Accepted(tb, kind) ==
    CASE tb = "AD_Element"           -> kind = "ColumnName"
      [] tb \in {"AD_Window", "AD_Tab"} -> kind \in {"ID", "Name"}
      [] OTHER                       -> kind = "ID"

\* C5: the WHERE key is picked in the order ColumnName, the table's own
\* <Table>_ID, Name, so the rule of the statement just parsed is stored under
\* that key and not under the value of an unrelated numeric filter.
C5_KeyPriority ==
    (pc = "parse" /\ IsUpdate(lastStmt)) =>
        LET tb  == TableOf(lastStmt)
            key == DocumentedKey(lastStmt)
        IN  (key # NoKey /\ Accepted(tb, key[1])) =>
                StoredKey(tb, key) \in DOMAIN updates[tb]

\* UPDATE table SET f='v' WHERE key='k': one assignment and one condition on
\* ColumnName, the table's identifier or Name
IsSimple(stmt) ==
    /\ IsUpdate(stmt)
    /\ Len(stmt.set) = 1 /\ Len(stmt.where) = 1
    /\ DocumentedKey(stmt) # NoKey

\* C6: a well-formed UPDATE table SET f='v' WHERE key='k' leaves exactly one
\* rule (table, key type, k) -> {f: v}, also when it is parsed a second time:
\* after the statement is parsed the table's dictionary holds, under that
\* key, the one field f (upper-cased, as the code stores it) with value v.
C6_OneRulePerStatement ==
    (pc = "parse" /\ IsSimple(lastStmt)) =>
        LET tb == TableOf(lastStmt)
            k  == StoredKey(tb, DocumentedKey(lastStmt))
            a  == lastStmt.set[1]
        IN  /\ k \in DOMAIN updates[tb]
            /\ DOMAIN updates[tb][k] = {Upper(a.field)}
            /\ updates[tb][k][Upper(a.field)] = Unescape(a.val)

\* C8: in update_packout a failing lookup never aborts the run, in any of
\* the seven loops.
C8_LookupFailureCaught ==
    (script = "update_packout" /\ lookupFailed) => pc # "crashed"

\* C9: a run ends either before any processing, with a non-zero status and
\* no output, or after all loops with the output written once and status 0.
C9_TwoWaysToEnd ==
    pc \in {"exit", "done", "crashed"} =>
        \/ /\ exitCode # 0
           /\ written = <<>> /\ writes = 0
           /\ ~Loaded /\ nParsed = 0 /\ pc = "exit"
        \/ /\ pc = "done"
           /\ exitCode = 0
           /\ writes = 1 /\ written = Serialize(tree)

\* the fields the rule tables are documented to carry, as PackOut.xml spells
\* their tags
DocumentedFields == {"Name", "PrintName", "Help", "Description", "IsCentrallyMaintained"}

\* the tables whose rules are keyed by one child that no rule can change
SingleKeyTables == {"AD_Element", "AD_Field", "AD_Process", "AD_Form", "AD_Menu"}

KeyTag(tb) == IF tb = "AD_Element" THEN "ColumnName" ELSE IdTag[tb]

\* C10: when a rule matches an element, every documented field of the rule
\* whose tag is a child of the element has the rule's value as its text.
C10_EveryFieldApplied ==
    (script = "sql2packout" /\ pc = "done") =>
        \A e \in DictElements(tree) :
            LET tb  == tree[e].tag
                key == StrKey(TextOf(tree, find(tree, e, Spell[KeyTag(tb)])))
            IN  (tb \in SingleKeyTables /\ key \in DOMAIN updates[tb]) =>
                    \A tg \in DocumentedFields :
                        LET f     == Upper(Spell[tg])
                            child == find(tree, e, Spell[tg])
                        IN  (f \in DOMAIN updates[tb][key] /\ child # 0) =>
                                tree[child].text = updates[tb][key][f]

====
